---- MODULE Spec2Model ----
(***************************************************************************)
(* CogniRename: face matching against a registered gallery, derivation of  *)
(* the new file name, conflict resolution and the batch orchestrator.      *)
(*                                                                         *)
(* Eleven specifications share the variables below:                        *)
(*   SpecResolve  the conflict resolver loop on an arbitrary directory     *)
(*   SpecGallery  the store (FaceDatabase) and one FaceService instance    *)
(*   SpecMatch    FaceService.identify_faces against a loaded gallery      *)
(*   SpecClassify FaceService.process_image_for_rename on any detection    *)
(*   SpecSanitize clean_filename on any string, and on its own result      *)
(*   SpecDerive   RenameService.generate_new_filename on any labels        *)
(*   SpecCall     one register_face_from_image or delete_person call       *)
(*   SpecLoad     _load_known_faces next to a thread in identify_faces     *)
(*   SpecSafety   validate_path_safety on any path and base directory      *)
(*   Spec         RenameService.rename_batch over a worker pool            *)
(*   SpecRerun    rename_batch run again over the files the first run left *)
(***************************************************************************)
EXTENDS Integers, Sequences, FiniteSets, TLC

\* ------------------------------------------------------------------ bounds

\* The resolver's probe limit.  The source uses 9999 (rename_service.py:92,
\* path_helpers.py:161); the model keeps the loop and scales the limit down.
MaxCounter ==
    3

\* rows ever inserted into face_encodings
MaxRows ==
    2

\* rows ever inserted into persons
MaxPersons ==
    2

\* faces in one image, encodings in one identify_faces call
MaxFaces ==
    2

\* files handed to one rename_batch call
MaxFiles ==
    3

\* faces detected in one image
MaxDetected ==
    4

\* characters of a string given to clean_filename
MaxLen ==
    4

\* calls of clean_filename made one on the other's result
MaxCalls ==
    2

\* names given to one generate_new_filename call
MaxLabels ==
    3

\* components of a path handed to validate_path_safety
MaxDepth ==
    3

\* ------------------------------------------------------ program constants

\* FACE_RECOGNITION_CONFIG["tolerance"] = 0.6, in units of 0.1
tolerance ==
    6

\* RENAME_CONFIG["max_names_per_file"]
max_names_per_file ==
    3

\* PERFORMANCE_CONFIG["max_workers"]
max_workers ==
    4

\* ------------------------------------------------------------- path values

\* A file name is kept in the parts pathlib splits it into: the stem is the
\* labels joined by the separator followed by the duplicate suffixes that
\* were appended to it, the suffix is the extension.
MkName(stem, dup, ext) ==
    [stem |-> stem, dup |-> dup, ext |-> ext]

MkPath(dir, name) ==
    [dir |-> dir, name |-> name]

\* duplicate_format.format(n=counter): the text "(n)"
duplicate_format(n) ==
    [k |-> "dup", v |-> n]

\* f"_{timestamp}"
timestamp_suffix(t) ==
    [k |-> "ts", v |-> t]

\* base_path / f"{stem}{extra}{suffix}"
WithStemSuffix(target_path, extra) ==
    [target_path EXCEPT !.name.dup = Append(@, extra)]

\* int(time.time()) at the moment of the call: any of these
Times ==
    {1700000000, 1700000001}

\* ---------------------------------------------------------------- variables

VARIABLES
    \* the store (FaceDatabase)
    persons,          \* table persons: id -> name
    face_encodings,   \* table face_encodings, in rowid order: [person_id, encoding]
    next_person_id,   \* AUTOINCREMENT of persons
    \* one FaceService instance
    known_encodings,  \* self._known_encodings
    known_names,      \* self._known_names
    unloaded_commit,  \* a commit was made to the store after the last _load_known_faces (history)
    ret,              \* what the last call on the store or the service returned or raised
    query,            \* face_encodings argument of the last identify_faces call
    identified,       \* its return value
    fs,          \* the filesystem: existing path -> content of the file
    r_target,    \* resolver: target_path
    r_pc,        \* resolver: position ("entry", "probe", "done")
    r_counter,   \* resolver: counter
    r_probed,    \* resolver: the counters probed so far (history)
    r_result,    \* resolver: the returned path
    \* rename_batch
    image_files,   \* the files submitted
    dry_run,       \* the dry_run argument
    pc,            \* per file: "queued", "renaming", "done", "collected"
    target,        \* per file: target_path of rename_single_file
    future,        \* per file: what its task returned or raised
    rename_failed, \* the files whose rename syscall raised (history)
    results,       \* results, in collection order
    successful,
    failed,
    no_faces,
    progress,      \* the progress_callback calls made, in order
    batch,         \* "running", "returned", "raised"
    fs0,           \* the filesystem when the batch was started (history)
    preview,       \* per file: the result a preceding dry run reported
    rerun,         \* the batch runs over the files that a first run left
    \* one call of process_image_for_rename
    c_pc,          \* "idle", "detected", "returned"
    c_face_data,   \* what detect_faces_in_image answered, or that it raised
    c_labels,      \* the returned list
    \* calls of clean_filename
    s_filename,    \* the argument of the first call
    s_cleaned,     \* the return values, each call made on the previous one's
    \* one call of generate_new_filename
    g_pc,            \* "idle", "called", "returned"
    g_names,         \* names
    g_original_path, \* original_path
    g_new_filename,  \* the returned file name
    \* one call on the store or the service, made on a store as found
    args,            \* the call and its arguments
    \* _load_known_faces statement by statement, and a thread in identify_faces
    l_pc,          \* loader: "idle", "fetched", "cleared_encodings", "loop", "appended", "done"
    l_face_data,   \* loader: face_data
    l_todo,        \* loader: the rows of face_data the loop has not reached
    l_before,      \* the cached gallery when the load began (history)
    i_pc,          \* reader: "idle", "matched", "done"
    seen           \* reader: the lists it read

storeVars ==
    <<persons, face_encodings, next_person_id>>

serviceVars ==
    <<known_encodings, known_names, unloaded_commit, ret, query, identified>>

resolverVars ==
    <<r_target, r_pc, r_counter, r_probed, r_result>>

batchVars ==
    <<image_files, dry_run, pc, target, future, rename_failed, results,
      successful, failed, no_faces, progress, batch, fs0, preview, rerun>>

classifierVars ==
    <<c_pc, c_face_data, c_labels>>

sanitizerVars ==
    <<s_filename, s_cleaned>>

deriverVars ==
    <<g_pc, g_names, g_original_path, g_new_filename>>

loadVars ==
    <<l_pc, l_face_data, l_todo, l_before, i_pc, seen>>

callVars ==
    <<classifierVars, sanitizerVars, deriverVars, args, loadVars>>

vars ==
    <<storeVars, serviceVars, fs, resolverVars, batchVars, callVars>>

NoPath ==
    [dir |-> "", name |-> MkName(<<>>, <<>>, "")]

Exists(path) ==
    path \in DOMAIN fs

\* ------------------------------------------------------------ the store

Names ==
    {"Alice", "Bob"}

\* encodings of the faces that get registered, and of the faces that get
\* identified: vectors of dimension 1, in units of 0.1
RegVectors ==
    {0, 12}

QueryVectors ==
    {2, 6, 19}

\* identify_faces' answer for a face that matches nobody
None ==
    "<None>"

EmptyTable ==
    [id \in {} |-> ""]

\* ORDER BY p.name: the collation order of the names
NameRank(name) ==
    CASE name = "Alice" -> 1
      [] name = "Bob" -> 2
      [] name = "Carol" -> 3
      [] name = "Dave" -> 4
      [] OTHER -> 5

PersonNames(tbl) ==
    { tbl[id] : id \in DOMAIN tbl }

\* get_person_by_name: the id of the person with that name, 0 for None
get_person_by_name(tbl, name) ==
    IF \E id \in DOMAIN tbl : tbl[id] = name
    THEN CHOOSE id \in DOMAIN tbl : tbl[id] = name
    ELSE 0

\* INSERT INTO persons (name) VALUES (?)
InsertPerson(tbl, id, name) ==
    [i \in DOMAIN tbl \cup {id} |-> IF i = id THEN name ELSE tbl[i]]

\* DELETE FROM persons WHERE id = ?
DeletePersonRow(tbl, id) ==
    [i \in DOMAIN tbl \ {id} |-> tbl[i]]

\* ON DELETE CASCADE, with PRAGMA foreign_keys = ON
CascadeKeepsRows(rows, id) ==
    rows

Cascade(rows, id) ==
    SelectSeq(rows, LAMBDA r : r.person_id # id)

\* get_all_face_encodings: the rows of face_encodings JOIN persons in the
\* order of the person's name.  SQL leaves the order of rows with the same
\* name open, so every order sorted by name is a possible answer.
get_all_face_encodings(tbl, rows) ==
    LET joined == SelectSeq(rows, LAMBDA r : r.person_id \in DOMAIN tbl)
        n == Len(joined)
        rank(i) == NameRank(tbl[joined[i].person_id])
        orders == { f \in [1..n -> 1..n] :
                      /\ \A i, j \in 1..n : i # j => f[i] # f[j]
                      /\ \A i, j \in 1..n : i < j => rank(f[i]) <= rank(f[j]) }
    IN  { [i \in 1..n |-> [person_id |-> joined[f[i]].person_id,
                           name |-> tbl[joined[f[i]].person_id],
                           encoding |-> joined[f[i]].encoding]] : f \in orders }

\* ------------------------------------------------------------ FaceService

Abs(x) ==
    IF x < 0 THEN -x ELSE x

\* face_recognition.face_distance: the Euclidean distance of the encoding
\* to each known encoding
face_distance(known, encoding) ==
    [j \in 1..Len(known) |-> Abs(known[j] - encoding)]

\* np.argmin: the first index holding the minimum
argminLast(distances) ==
    CHOOSE i \in DOMAIN distances :
        /\ \A j \in DOMAIN distances : distances[i] <= distances[j]
        /\ \A j \in DOMAIN distances : j > i => distances[j] > distances[i]

argmin(distances) ==
    CHOOSE i \in DOMAIN distances :
        /\ \A j \in DOMAIN distances : distances[i] <= distances[j]
        /\ \A j \in DOMAIN distances : j < i => distances[j] > distances[i]

\* min_distance <= self.tolerance
WithinToleranceStrict(min_distance) ==
    min_distance < tolerance

WithinTolerance(min_distance) ==
    min_distance <= tolerance

\* the body of identify_faces' loop
IdentifyOne(encoding, kn_encodings, kn_names) ==
    LET distances == face_distance(kn_encodings, encoding)
        min_distance_idx == argmin(distances)
        min_distance == distances[min_distance_idx]
    IN  IF WithinTolerance(min_distance)
        THEN kn_names[min_distance_idx]
        ELSE None

identify_faces(encodings, kn_encodings, kn_names) ==
    IF kn_encodings = <<>>
    THEN [i \in 1..Len(encodings) |-> None]
    ELSE [i \in 1..Len(encodings) |->
              IdentifyOne(encodings[i], kn_encodings, kn_names)]

\* sequences over S of length lo..hi
SeqsOf(S, lo, hi) ==
    UNION { [1..n -> S] : n \in lo..hi }

\* what a call returned or raised
Ret(op, val) ==
    [op |-> op, val |-> val]

InitStore ==
    /\ persons = EmptyTable
    /\ face_encodings = <<>>
    /\ next_person_id = 1

\* FaceService.__init__ on the empty store
InitService ==
    /\ known_encodings = <<>>
    /\ known_names = <<>>
    /\ unloaded_commit = FALSE
    /\ ret = Ret("none", "none")
    /\ query = <<>>
    /\ identified = <<>>

\* _load_known_faces with face_data the answer of get_all_face_encodings
LoadSkipped(face_data) ==
    UNCHANGED <<known_encodings, known_names, unloaded_commit>>

LoadKnownFaces(face_data) ==
    /\ known_encodings' = [i \in 1..Len(face_data) |-> face_data[i].encoding]
    /\ known_names' = [i \in 1..Len(face_data) |-> face_data[i].name]
    /\ unloaded_commit' = FALSE

\* refresh_known_faces
RefreshKnownFaces ==
    /\ \E face_data \in get_all_face_encodings(persons, face_encodings) :
           LoadKnownFaces(face_data)
    /\ ret' = Ret("refresh_known_faces", "None")
    /\ UNCHANGED <<storeVars, query, identified>>

\* the store operations register_face_from_image calls, in call order
StoreOps ==
    {"get_person_by_name", "add_person", "add_face_encoding", "get_all_face_encodings"}

\* if not face_data: raise ...; if len(face_data) > 1: raise ...
AtLeastOneFace(faces) ==
    Len(faces) >= 1

ExactlyOneFace(faces) ==
    Len(faces) = 1

\* register_face_from_image(image_path, person_name) on an image in which
\* detection finds faces; fail_at names the store operation that raises
\* when it is called ("none": no operation raises)
RegisterFaceFromImage(person_name, faces, fail_at) ==
    IF ~ExactlyOneFace(faces)
    THEN \* raise ValueError, before the store is touched
         /\ ret' = Ret("register_face_from_image", "ValueError")
         /\ UNCHANGED <<storeVars, known_encodings, known_names, unloaded_commit,
                        query, identified>>
    ELSE LET encoding == faces[1]
             existing == get_person_by_name(persons, person_name)
             lookup_ok == fail_at # "get_person_by_name"
             adds == lookup_ok /\ existing = 0
             add_ok == adds => fail_at # "add_person"
             person_id == IF existing # 0 THEN existing ELSE next_person_id
             persons1 == IF adds /\ add_ok
                         THEN InsertPerson(persons, person_id, person_name)
                         ELSE persons
             enc_ok == lookup_ok /\ add_ok /\ fail_at # "add_face_encoding"
             rows1 == IF enc_ok
                      THEN Append(face_encodings,
                                  [person_id |-> person_id, encoding |-> encoding])
                      ELSE face_encodings
             committed == (adds /\ add_ok) \/ enc_ok
             load_ok == enc_ok /\ fail_at # "get_all_face_encodings"
         IN  /\ adds => next_person_id <= MaxPersons
             /\ Len(face_encodings) < MaxRows
             /\ persons' = persons1
             /\ face_encodings' = rows1
             /\ next_person_id' = IF adds /\ add_ok THEN next_person_id + 1
                                  ELSE next_person_id
             /\ IF load_ok
                THEN /\ \E face_data \in get_all_face_encodings(persons1, rows1) :
                            LoadKnownFaces(face_data)
                     /\ ret' = Ret("register_face_from_image", "True")
                ELSE /\ UNCHANGED <<known_encodings, known_names>>
                     /\ unloaded_commit' = (unloaded_commit \/ committed)
                     /\ ret' = Ret("register_face_from_image", "False")
             /\ UNCHANGED <<query, identified>>

\* name TEXT UNIQUE NOT NULL: the INSERT raises sqlite3.IntegrityError
NameTakenNever(tbl, name) ==
    FALSE

NameTaken(tbl, name) ==
    name \in PersonNames(tbl)

\* FaceDatabase.add_person(name)
AddPerson(name) ==
    /\ IF NameTaken(persons, name)
       THEN \* sqlite3.IntegrityError -> ValueError
            /\ ret' = Ret("add_person", "ValueError")
            /\ UNCHANGED <<storeVars, unloaded_commit>>
       ELSE /\ next_person_id <= MaxPersons
            /\ persons' = InsertPerson(persons, next_person_id, name)
            /\ next_person_id' = next_person_id + 1
            /\ unloaded_commit' = TRUE
            /\ ret' = Ret("add_person", "id")
            /\ UNCHANGED face_encodings
    /\ UNCHANGED <<known_encodings, known_names, query, identified>>

\* FaceDatabase.delete_person(person_id)
DeletePerson(person_id) ==
    /\ IF person_id \in DOMAIN persons
       THEN /\ persons' = DeletePersonRow(persons, person_id)
            /\ face_encodings' = Cascade(face_encodings, person_id)
            /\ unloaded_commit' = TRUE
            /\ ret' = Ret("delete_person", "True")
            /\ UNCHANGED next_person_id
       ELSE /\ ret' = Ret("delete_person", "False")
            /\ UNCHANGED <<storeVars, unloaded_commit>>
    /\ UNCHANGED <<known_encodings, known_names, query, identified>>

\* FaceService.identify_faces(face_encodings)
IdentifyFaces(encodings) ==
    /\ query' = encodings
    /\ identified' = identify_faces(encodings, known_encodings, known_names)
    /\ ret' = Ret("identify_faces", "list")
    /\ UNCHANGED <<storeVars, known_encodings, known_names, unloaded_commit>>

\* a store as earlier runs of the program can have left it: persons with
\* distinct names and ids, and rows that each belong to one of them
Stores ==
    { st \in [tbl : UNION { [ids -> Names] : ids \in SUBSET (1..MaxPersons) },
              rows : SeqsOf([person_id : 1..MaxPersons, encoding : RegVectors],
                            0, MaxRows)] :
        /\ \A i, j \in DOMAIN st.tbl : i # j => st.tbl[i] # st.tbl[j]
        /\ \A k \in 1..Len(st.rows) : st.rows[k].person_id \in DOMAIN st.tbl }

\* FaceService.__init__ on the store st
InitServiceOn(st) ==
    /\ persons = st.tbl
    /\ face_encodings = st.rows
    /\ next_person_id = MaxPersons + 1
    /\ \E face_data \in get_all_face_encodings(st.tbl, st.rows) :
           /\ known_encodings = [i \in 1..Len(face_data) |-> face_data[i].encoding]
           /\ known_names = [i \in 1..Len(face_data) |-> face_data[i].name]
    /\ unloaded_commit = FALSE
    /\ ret = Ret("none", "none")
    /\ query = <<>>
    /\ identified = <<>>

\* ------------------------------------------------- the conflict resolver

\* resolve_filename_conflict / get_unique_filename, as a function of the
\* set of existing paths (one snapshot) and the clock
RECURSIVE ProbeFrom(_, _, _, _)
ProbeFrom(target_path, counter, existing, now) ==
    LET new_path == WithStemSuffix(target_path, duplicate_format(counter))
    IN  IF new_path \notin existing
        THEN new_path
        ELSE IF counter + 1 > MaxCounter
             THEN WithStemSuffix(target_path, timestamp_suffix(now))
             ELSE ProbeFrom(target_path, counter + 1, existing, now)

resolve_filename_conflict(target_path, existing, now) ==
    IF target_path \notin existing
    THEN target_path
    ELSE ProbeFrom(target_path, 1, existing, now)

\* The same code, one filesystem probe per step.
ResolveCandidates ==
    { MkPath("d1", MkName(<<"test">>, <<>>, ".txt")),
      MkPath("d1", MkName(<<"data">>, <<>>, "")) }

\* the names the resolver can probe or return for a candidate
Family(c) ==
    {c} \cup { WithStemSuffix(c, duplicate_format(n)) : n \in 1..MaxCounter }
        \cup { WithStemSuffix(c, timestamp_suffix(t)) : t \in Times }

NoFiles ==
    [p \in {} |-> "x"]

IdleBatch ==
    /\ image_files = {}
    /\ dry_run = FALSE
    /\ pc = NoFiles
    /\ target = NoFiles
    /\ future = NoFiles
    /\ rename_failed = {}
    /\ results = <<>>
    /\ successful = 0
    /\ failed = 0
    /\ no_faces = 0
    /\ progress = <<>>
    /\ batch = "idle"
    /\ fs0 = NoFiles
    /\ preview = NoFiles
    /\ rerun = FALSE

NoGallery ==
    [encodings |-> <<>>, names |-> <<>>]

IdleLoad ==
    /\ l_pc = "idle"
    /\ l_face_data = <<>>
    /\ l_todo = <<>>
    /\ l_before = NoGallery
    /\ i_pc = "idle"
    /\ seen = NoGallery

NoCall ==
    [op |-> "none"]

\* no call of the classifier, the sanitizer or the deriver on its own
IdleCalls ==
    /\ c_pc = "idle"
    /\ c_face_data = [raises |-> FALSE, faces |-> <<>>]
    /\ c_labels = <<>>
    /\ s_filename = <<>>
    /\ s_cleaned = <<>>
    /\ g_pc = "idle"
    /\ g_names = <<>>
    /\ g_original_path = NoPath
    /\ g_new_filename = NoPath.name
    /\ args = NoCall
    /\ IdleLoad

IdleResolver ==
    /\ r_target = NoPath
    /\ r_pc = "idle"
    /\ r_counter = 0
    /\ r_probed = {}
    /\ r_result = NoPath

InitResolve ==
    /\ InitStore
    /\ InitService
    /\ r_target \in ResolveCandidates
    /\ \E present \in SUBSET Family(r_target) :
           fs = [p \in present |-> "x"]
    /\ r_pc = "entry"
    /\ r_counter = 0
    /\ r_probed = {}
    /\ r_result = NoPath
    /\ IdleBatch
    /\ IdleCalls

\* if not target_path.exists(): return target_path;  counter = 1
ResolveEntry ==
    /\ r_pc = "entry"
    /\ IF ~Exists(r_target)
       THEN /\ r_pc' = "done"
            /\ r_result' = r_target
            /\ r_counter' = r_counter
       ELSE /\ r_pc' = "probe"
            /\ r_counter' = 1
            /\ r_result' = r_result
    /\ UNCHANGED <<fs, r_target, r_probed, storeVars, serviceVars, batchVars, callVars>>

\* the counter at which the loop gives up probing
ProbeLimitReachedOffByOne(counter) ==
    counter > MaxCounter - 1

ProbeLimitReached(counter) ==
    counter > MaxCounter

\* the first counter the loop probes after a miss at counter
NextCounterSkips(counter) ==
    counter + 2

NextCounter(counter) ==
    counter + 1

\* one iteration of the while True loop
ResolveProbe ==
    /\ r_pc = "probe"
    /\ r_probed' = r_probed \cup {r_counter}
    /\ LET new_path == WithStemSuffix(r_target, duplicate_format(r_counter))
       IN  IF ~Exists(new_path)
           THEN /\ r_pc' = "done"
                /\ r_result' = new_path
                /\ r_counter' = r_counter
           ELSE IF ProbeLimitReached(NextCounter(r_counter))
                THEN /\ \E now \in Times :
                            r_result' = WithStemSuffix(r_target, timestamp_suffix(now))
                     /\ r_pc' = "done"
                     /\ r_counter' = NextCounter(r_counter)
                ELSE /\ r_counter' = NextCounter(r_counter)
                     /\ r_pc' = "probe"
                     /\ r_result' = r_result
    /\ UNCHANGED <<fs, r_target, storeVars, serviceVars, batchVars, callVars>>

NextResolve ==
    \/ ResolveEntry
    \/ ResolveProbe

SpecResolve ==
    InitResolve /\ [][NextResolve]_vars /\ WF_vars(NextResolve)


\* ------------------------------------------------------- RenameService

SUPPORTED_IMAGE_FORMATS ==
    {".jpg", ".jpeg", ".png", ".webp", ".jfif", ".bmp", ".tiff", ".tif"}

\* str.lower() on the extensions that occur
LowerKeepsCase(ext) ==
    ext

Lower(ext) ==
    CASE ext = ".JPG" -> ".jpg"
      [] ext = ".PNG" -> ".png"
      [] OTHER -> ext

\* The detector (face_recognition) on the content of an image file: it
\* raises, or it answers the encodings of the faces it found.
DetectorAnswer(content) ==
    CASE content = "alice" -> [raises |-> FALSE, faces |-> <<2>>]
      [] content = "bob_alice_bob" -> [raises |-> FALSE, faces |-> <<12, 2, 12>>]
      [] content = "stranger" -> [raises |-> FALSE, faces |-> <<19>>]
      [] content = "landscape" -> [raises |-> FALSE, faces |-> <<>>]
      [] OTHER -> [raises |-> TRUE, faces |-> <<>>]

\* detect_faces_in_image: FileNotFoundError for a missing file, ValueError
\* when the detector raises
detect_faces_in_image(image_path, files) ==
    IF image_path \notin DOMAIN files
    THEN [raises |-> TRUE, faces |-> <<>>]
    ELSE DetectorAnswer(files[image_path])

\* list(dict.fromkeys(valid_names))
RECURSIVE DedupeKeepsLast(_)
DedupeKeepsLast(names) ==
    IF names = <<>>
    THEN <<>>
    ELSE LET rest == DedupeKeepsLast(Tail(names))
         IN  IF \E i \in 1..Len(rest) : rest[i] = Head(names)
             THEN rest
             ELSE <<Head(names)>> \o rest

RECURSIVE Dedupe(_)
Dedupe(names) ==
    IF names = <<>>
    THEN <<>>
    ELSE LET front == Dedupe(SubSeq(names, 1, Len(names) - 1))
             last == names[Len(names)]
         IN  IF \E i \in 1..Len(front) : front[i] = last
             THEN front
             ELSE Append(front, last)

\* unique_names[:max_names]
TruncateOneMore(names, n) ==
    SubSeq(names, 1, IF Len(names) < n + 1 THEN Len(names) ELSE n + 1)

Truncate(names, n) ==
    SubSeq(names, 1, IF Len(names) < n THEN Len(names) ELSE n)

\* [name for name in identified_names if name is not None]
ValidNamesKeepNone(identified_names) ==
    identified_names

ValidNames(identified_names) ==
    SelectSeq(identified_names, LAMBDA nm : nm # None)

\* process_image_for_rename from the answer of detect_faces_in_image on:
\* an exception of the detection is logged and answered with the empty list
LabelsFor(face_data, kn_encodings, kn_names) ==
    IF face_data.raises \/ face_data.faces = <<>>
    THEN <<>>
    ELSE LET identified_names == identify_faces(face_data.faces, kn_encodings, kn_names)
             unique_names == Dedupe(ValidNames(identified_names))
         IN  Truncate(unique_names, max_names_per_file)

process_image_for_rename(image_path, files, kn_encodings, kn_names) ==
    LabelsFor(detect_faces_in_image(image_path, files), kn_encodings, kn_names)

\* generate_new_filename: name_separator.join(names) + suffix.lower()
generate_new_filename_no_identity(names, original_path) ==
    MkName(names, <<>>, Lower(original_path.name.ext))

generate_new_filename(names, original_path) ==
    IF names = <<>>
    THEN original_path.name
    ELSE MkName(names, <<>>, Lower(original_path.name.ext))

\* the result dictionary of rename_single_file (None is "none")
NewResult(image_path) ==
    [original_path |-> image_path, success |-> FALSE, new_path |-> NoPath,
     identified_names |-> <<>>, error |-> "none"]

\* a task's outcome: the value it returned, or the exception it raised
Returned(value) ==
    [exception |-> FALSE, value |-> value]

Raised(value) ==
    [exception |-> TRUE, value |-> value]

\* if not dry_run and target_path != image_path
MustRenameIgnoringDryRun(dry, target_path, image_path) ==
    target_path # image_path

MustRename(dry, target_path, image_path) ==
    ~dry /\ target_path # image_path

\* except Exception as e: result["error"] = ...; the result is returned
RenameErrorPropagates(res) ==
    Raised(res)

RenameErrorIsSuccess(res) ==
    Returned([res EXCEPT !.success = TRUE])

OnRenameError(res) ==
    Returned([res EXCEPT !.error = "rename_error"])

\* os.rename(source, destination): the destination is replaced
Renamed(files, source, destination) ==
    [q \in (DOMAIN files \ {source}) \cup {destination} |->
        IF q = destination THEN files[source] ELSE files[q]]

Running ==
    { p \in image_files : pc[p] = "renaming" }

\* A worker takes the file and runs rename_single_file up to the rename
\* syscall: format check, classification, new name, conflict resolution.
StartFile(image_path) ==
    /\ batch = "running"
    /\ pc[image_path] = "queued"
    /\ Cardinality(Running) < max_workers
    /\ LET result == NewResult(image_path)
           identified_names ==
               process_image_for_rename(image_path, fs, known_encodings, known_names)
           new_filename == generate_new_filename(identified_names, image_path)
           candidate == MkPath(image_path.dir, new_filename)
       IN  IF Lower(image_path.name.ext) \notin SUPPORTED_IMAGE_FORMATS
           THEN /\ future' = [future EXCEPT ![image_path] =
                                  Returned([result EXCEPT !.error = "unsupported"])]
                /\ pc' = [pc EXCEPT ![image_path] = "done"]
                /\ UNCHANGED target
           ELSE IF identified_names = <<>>
           THEN /\ future' = [future EXCEPT ![image_path] =
                                  Returned([result EXCEPT !.error = "no_face"])]
                /\ pc' = [pc EXCEPT ![image_path] = "done"]
                /\ UNCHANGED target
           ELSE \E now \in Times :
                  LET target_path ==
                          IF candidate # image_path
                          THEN resolve_filename_conflict(candidate, DOMAIN fs, now)
                          ELSE candidate
                      found == [result EXCEPT !.identified_names = identified_names,
                                              !.new_path = target_path]
                  IN  /\ target' = [target EXCEPT ![image_path] = target_path]
                      /\ IF MustRename(dry_run, target_path, image_path)
                         THEN /\ pc' = [pc EXCEPT ![image_path] = "renaming"]
                              /\ future' = [future EXCEPT ![image_path] = Returned(found)]
                         ELSE /\ pc' = [pc EXCEPT ![image_path] = "done"]
                              /\ future' = [future EXCEPT ![image_path] =
                                                Returned([found EXCEPT !.success = TRUE])]
    /\ UNCHANGED <<fs, image_files, dry_run, rename_failed, results, successful,
                   failed, no_faces, progress, batch, fs0, preview, rerun>>

\* image_path.rename(target_path), and the rest of rename_single_file.  The
\* syscall replaces an existing destination or raises, as the platform and
\* the filesystem decide.
RenameFile(image_path, ok) ==
    /\ batch = "running"
    /\ pc[image_path] = "renaming"
    /\ LET found == future[image_path].value
       IN  IF ok /\ Exists(image_path)
           THEN /\ fs' = Renamed(fs, image_path, target[image_path])
                /\ future' = [future EXCEPT ![image_path] =
                                  Returned([found EXCEPT !.success = TRUE])]
                /\ UNCHANGED rename_failed
           ELSE /\ future' = [future EXCEPT ![image_path] = OnRenameError(found)]
                /\ rename_failed' = rename_failed \cup {image_path}
                /\ UNCHANGED fs
    /\ pc' = [pc EXCEPT ![image_path] = "done"]
    /\ UNCHANGED <<image_files, dry_run, target, results, successful, failed,
                   no_faces, progress, batch, fs0, preview, rerun>>

\* progress_callback(i + 1, total_files), i the results collected before
ProgressArgsZeroBased(i, total_files) ==
    <<i, total_files>>

ProgressArgs(i, total_files) ==
    <<i + 1, total_files>>

\* else: failed += 1
FailedAfterSkipsNoFace(result, count) ==
    IF result.success \/ result.error = "no_face" THEN count ELSE count + 1

FailedAfter(result, count) ==
    IF result.success THEN count ELSE count + 1

\* one iteration of "for i, future in enumerate(as_completed(...))"
Collect(image_path) ==
    /\ batch = "running"
    /\ pc[image_path] = "done"
    /\ pc' = [pc EXCEPT ![image_path] = "collected"]
    /\ IF future[image_path].exception
       THEN \* future.result() raises the task's exception out of rename_batch
            /\ batch' = "raised"
            /\ UNCHANGED <<results, successful, failed, no_faces, progress>>
       ELSE LET result == future[image_path].value
            IN  /\ results' = Append(results, result)
                /\ successful' = IF result.success THEN successful + 1 ELSE successful
                /\ failed' = FailedAfter(result, failed)
                /\ no_faces' = IF ~result.success /\ result.error = "no_face"
                               THEN no_faces + 1 ELSE no_faces
                /\ progress' = Append(progress,
                                       ProgressArgs(Len(results), Cardinality(image_files)))
                /\ UNCHANGED batch
    /\ UNCHANGED <<fs, image_files, dry_run, target, future, rename_failed, fs0, preview, rerun>>

\* rename_batch returns its summary (at once for an empty list)
ReturnBatch ==
    /\ batch = "running"
    /\ \A p \in image_files : pc[p] = "collected"
    /\ batch' = "returned"
    /\ UNCHANGED <<fs, image_files, dry_run, pc, target, future, rename_failed,
                   results, successful, failed, no_faces, progress, fs0, preview, rerun>>

\* rename_batch(image_files, dry_run): every file is submitted
StartBatch(files, dry) ==
    /\ image_files' = files
    /\ dry_run' = dry
    /\ pc' = [p \in files |-> "queued"]
    /\ target' = [p \in files |-> NoPath]
    /\ future' = [p \in files |-> Returned(NewResult(p))]
    /\ rename_failed' = {}
    /\ results' = <<>>
    /\ successful' = 0
    /\ failed' = 0
    /\ no_faces' = 0
    /\ progress' = <<>>
    /\ batch' = "running"
    /\ fs0' = fs

\* After a dry run the same list is run again without dry_run.
RunAfterPreview ==
    /\ batch = "returned"
    /\ dry_run
    /\ preview' = [p \in image_files |-> future[p].value]
    /\ StartBatch(image_files, FALSE)
    /\ UNCHANGED <<fs, rerun>>

\* After a batch that was not a dry run, rename_batch is called again on
\* the files as the first run left them: under the new path where the file
\* was renamed, under the old one where it was not.
RunAgain ==
    /\ batch = "returned"
    /\ ~dry_run
    /\ ~rerun
    /\ LET left == { IF future[p].value.success THEN future[p].value.new_path ELSE p :
                       p \in image_files }
       IN  StartBatch(left, FALSE)
    /\ rerun' = TRUE
    /\ UNCHANGED <<fs, preview>>

\* The files a batch is drawn from: path and content.
Jpg(dir, stem, ext) ==
    MkPath(dir, MkName(<<stem>>, <<>>, ext))

Pool ==
    { [path |-> Jpg("d1", "img1", ".jpg"), content |-> "alice"],
      [path |-> Jpg("d1", "img2", ".JPG"), content |-> "alice"],
      [path |-> Jpg("d1", "img3", ".png"), content |-> "landscape"],
      [path |-> Jpg("d1", "img4", ".jpg"), content |-> "corrupt"],
      [path |-> Jpg("d1", "notes", ".txt"), content |-> "text"],
      [path |-> Jpg("d1", "Alice", ".jpg"), content |-> "alice"],
      [path |-> Jpg("d1", "img5", ".jpg"), content |-> "stranger"],
      [path |-> Jpg("d2", "img1", ".jpg"), content |-> "bob_alice_bob"] }

\* a file of the directory that a batch need not include
Bystanders ==
    { f \in Pool : f.path = Jpg("d1", "Alice", ".jpg") }

\* the gallery of the batch: Alice and Bob, one vector each
BatchStore ==
    [tbl |-> [id \in {1, 2} |-> IF id = 1 THEN "Alice" ELSE "Bob"],
     rows |-> << [person_id |-> 1, encoding |-> 0],
                 [person_id |-> 2, encoding |-> 12] >>]

InitBatch ==
    /\ InitServiceOn(BatchStore)
    /\ IdleResolver
    /\ IdleCalls
    /\ \E chosen \in SUBSET Pool, others \in SUBSET Bystanders :
           /\ Cardinality(chosen) <= MaxFiles
           /\ fs = [p \in { f.path : f \in chosen \cup others } |->
                       (CHOOSE f \in Pool : f.path = p).content]
           /\ image_files = { f.path : f \in chosen }
    /\ dry_run \in BOOLEAN
    /\ pc = [p \in image_files |-> "queued"]
    /\ target = [p \in image_files |-> NoPath]
    /\ future = [p \in image_files |-> Returned(NewResult(p))]
    /\ rename_failed = {}
    /\ results = <<>>
    /\ successful = 0
    /\ failed = 0
    /\ no_faces = 0
    /\ progress = <<>>
    /\ batch = "running"
    /\ fs0 = fs
    /\ preview = NoFiles
    /\ rerun = FALSE

Next ==
    \/ /\ \E image_path \in image_files : StartFile(image_path)
       /\ UNCHANGED <<storeVars, serviceVars, resolverVars, callVars>>
    \/ /\ \E image_path \in image_files, ok \in BOOLEAN : RenameFile(image_path, ok)
       /\ UNCHANGED <<storeVars, serviceVars, resolverVars, callVars>>
    \/ /\ \E image_path \in image_files : Collect(image_path)
       /\ UNCHANGED <<storeVars, serviceVars, resolverVars, callVars>>
    \/ /\ ReturnBatch
       /\ UNCHANGED <<storeVars, serviceVars, resolverVars, callVars>>
    \/ /\ RunAfterPreview
       /\ UNCHANGED <<storeVars, serviceVars, resolverVars, callVars>>

Init ==
    InitBatch

Spec ==
    Init /\ [][Next]_vars

\* ------------------------------------------ the store and one FaceService

\* ------------------------------------------- one call on a store as found

\* the calls: register_face_from_image(image_path, person_name) with the
\* faces detection finds in the image and the store operation that fails,
\* and delete_person(person_id)
Calls ==
    { [op |-> "register_face_from_image", person_name |-> nm, faces |-> f,
       fail_at |-> at, person_id |-> 0] :
          nm \in Names, f \in SeqsOf(RegVectors, 0, MaxFaces),
          at \in StoreOps \cup {"none"} }
      \cup { [op |-> "delete_person", person_name |-> "", faces |-> <<>>,
              fail_at |-> "none", person_id |-> id] : id \in 1..MaxPersons }

\* FaceService.__init__ on a store that earlier runs left, AUTOINCREMENT
\* being past every id in use
InitCall ==
    /\ \E st \in Stores, nid \in 1..(MaxPersons + 1) :
           /\ \A id \in DOMAIN st.tbl : id < nid
           /\ persons = st.tbl
           /\ face_encodings = st.rows
           /\ next_person_id = nid
           /\ \E face_data \in get_all_face_encodings(st.tbl, st.rows) :
                  /\ known_encodings = [i \in 1..Len(face_data) |-> face_data[i].encoding]
                  /\ known_names = [i \in 1..Len(face_data) |-> face_data[i].name]
    /\ unloaded_commit = FALSE
    /\ ret = Ret("none", "none")
    /\ query = <<>>
    /\ identified = <<>>
    /\ fs = [p \in {} |-> "x"]
    /\ IdleResolver
    /\ IdleBatch
    /\ c_pc = "idle"
    /\ c_face_data = [raises |-> FALSE, faces |-> <<>>]
    /\ c_labels = <<>>
    /\ s_filename = <<>>
    /\ s_cleaned = <<>>
    /\ g_pc = "idle"
    /\ g_names = <<>>
    /\ g_original_path = NoPath
    /\ g_new_filename = NoPath.name
    /\ args \in Calls
    /\ IdleLoad

CallRegisterFaceFromImage ==
    /\ ret.op = "none"
    /\ args.op = "register_face_from_image"
    /\ RegisterFaceFromImage(args.person_name, args.faces, args.fail_at)
    /\ UNCHANGED <<fs, resolverVars, batchVars, callVars>>

CallDeletePerson ==
    /\ ret.op = "none"
    /\ args.op = "delete_person"
    /\ DeletePerson(args.person_id)
    /\ UNCHANGED <<fs, resolverVars, batchVars, callVars>>

NextCall ==
    \/ CallRegisterFaceFromImage
    \/ CallDeletePerson

SpecCall ==
    InitCall /\ [][NextCall]_vars

\* ---------------------------- a refresh and a thread in identify_faces

GalleryOf(face_data) ==
    [encodings |-> [i \in 1..Len(face_data) |-> face_data[i].encoding],
     names |-> [i \in 1..Len(face_data) |-> face_data[i].name]]

\* a FaceService whose gallery was loaded when the store held the first
\* rows only; a thread is about to refresh it, another to identify a face
InitLoad ==
    /\ \E st \in Stores, k \in 0..MaxRows :
           /\ k <= Len(st.rows)
           /\ persons = st.tbl
           /\ face_encodings = st.rows
           /\ next_person_id = MaxPersons + 1
           /\ unloaded_commit = (k < Len(st.rows))
           /\ \E face_data \in get_all_face_encodings(st.tbl, SubSeq(st.rows, 1, k)) :
                  /\ known_encodings = GalleryOf(face_data).encodings
                  /\ known_names = GalleryOf(face_data).names
                  /\ l_before = GalleryOf(face_data)
    /\ ret = Ret("none", "none")
    /\ query = <<>>
    /\ identified = <<>>
    /\ fs = [p \in {} |-> "x"]
    /\ IdleResolver
    /\ IdleBatch
    /\ c_pc = "idle"
    /\ c_face_data = [raises |-> FALSE, faces |-> <<>>]
    /\ c_labels = <<>>
    /\ s_filename = <<>>
    /\ s_cleaned = <<>>
    /\ g_pc = "idle"
    /\ g_names = <<>>
    /\ g_original_path = NoPath
    /\ g_new_filename = NoPath.name
    /\ args = [op |-> "refresh_known_faces"]
    /\ l_pc = "idle"
    /\ l_face_data = <<>>
    /\ l_todo = <<>>
    /\ i_pc = "idle"
    /\ seen = NoGallery

\* face_data = self.db.get_all_face_encodings()
LoadFetch ==
    /\ l_pc = "idle"
    /\ \E face_data \in get_all_face_encodings(persons, face_encodings) :
           /\ l_face_data' = face_data
           /\ l_todo' = face_data
    /\ l_before' = [encodings |-> known_encodings, names |-> known_names]
    /\ l_pc' = "fetched"
    /\ unloaded_commit' = FALSE
    /\ UNCHANGED <<known_encodings, known_names, i_pc, seen>>

\* self._known_encodings = []
LoadClearEncodings ==
    /\ l_pc = "fetched"
    /\ known_encodings' = <<>>
    /\ l_pc' = "cleared_encodings"
    /\ UNCHANGED <<known_names, unloaded_commit, l_face_data, l_todo, l_before, i_pc, seen>>

\* self._known_names = []
LoadClearNames ==
    /\ l_pc = "cleared_encodings"
    /\ known_names' = <<>>
    /\ l_pc' = "loop"
    /\ UNCHANGED <<known_encodings, unloaded_commit, l_face_data, l_todo, l_before, i_pc, seen>>

\* self._known_encodings.append(encoding)
LoadAppendEncoding ==
    /\ l_pc = "loop"
    /\ l_todo # <<>>
    /\ known_encodings' = Append(known_encodings, Head(l_todo).encoding)
    /\ l_pc' = "appended"
    /\ UNCHANGED <<known_names, unloaded_commit, l_face_data, l_todo, l_before, i_pc, seen>>

\* self._known_names.append(name)
LoadAppendName ==
    /\ l_pc = "appended"
    /\ known_names' = Append(known_names, Head(l_todo).name)
    /\ l_todo' = Tail(l_todo)
    /\ l_pc' = "loop"
    /\ UNCHANGED <<known_encodings, unloaded_commit, l_face_data, l_before, i_pc, seen>>

\* the loop is over
LoadReturn ==
    /\ l_pc = "loop"
    /\ l_todo = <<>>
    /\ l_pc' = "done"
    /\ UNCHANGED <<known_encodings, known_names, unloaded_commit, l_face_data, l_todo,
                   l_before, i_pc, seen>>

\* identify_faces: if not self._known_encodings ... face_distance(
\* self._known_encodings, encoding), for an encoding within the tolerance
IdentifyReadEncodings ==
    /\ i_pc = "idle"
    /\ seen' = [seen EXCEPT !.encodings = known_encodings]
    /\ i_pc' = IF known_encodings = <<>> THEN "done" ELSE "matched"
    /\ UNCHANGED <<known_encodings, known_names, unloaded_commit, l_pc, l_face_data,
                   l_todo, l_before>>

\* name = self._known_names[min_distance_idx]
IdentifyReadNames ==
    /\ i_pc = "matched"
    /\ seen' = [seen EXCEPT !.names = known_names]
    /\ i_pc' = "done"
    /\ UNCHANGED <<known_encodings, known_names, unloaded_commit, l_pc, l_face_data,
                   l_todo, l_before>>

NextLoad ==
    \/ LoadFetch /\ UNCHANGED <<storeVars, ret, query, identified, fs, resolverVars,
                                batchVars, classifierVars, sanitizerVars, deriverVars, args>>
    \/ LoadClearEncodings /\ UNCHANGED <<storeVars, ret, query, identified, fs, resolverVars,
                                batchVars, classifierVars, sanitizerVars, deriverVars, args>>
    \/ LoadClearNames /\ UNCHANGED <<storeVars, ret, query, identified, fs, resolverVars,
                                batchVars, classifierVars, sanitizerVars, deriverVars, args>>
    \/ LoadAppendEncoding /\ UNCHANGED <<storeVars, ret, query, identified, fs, resolverVars,
                                batchVars, classifierVars, sanitizerVars, deriverVars, args>>
    \/ LoadAppendName /\ UNCHANGED <<storeVars, ret, query, identified, fs, resolverVars,
                                batchVars, classifierVars, sanitizerVars, deriverVars, args>>
    \/ LoadReturn /\ UNCHANGED <<storeVars, ret, query, identified, fs, resolverVars,
                                batchVars, classifierVars, sanitizerVars, deriverVars, args>>
    \/ IdentifyReadEncodings /\ UNCHANGED <<storeVars, ret, query, identified, fs, resolverVars,
                                batchVars, classifierVars, sanitizerVars, deriverVars, args>>
    \/ IdentifyReadNames /\ UNCHANGED <<storeVars, ret, query, identified, fs, resolverVars,
                                batchVars, classifierVars, sanitizerVars, deriverVars, args>>

SpecLoad ==
    InitLoad /\ [][NextLoad]_vars

\* ------------------------------------------------------- the second run

InitRerun ==
    /\ InitBatch
    /\ ~dry_run

NextRerun ==
    \/ /\ \E image_path \in image_files : StartFile(image_path)
       /\ UNCHANGED <<storeVars, serviceVars, resolverVars, callVars>>
    \/ /\ \E image_path \in image_files, ok \in BOOLEAN : RenameFile(image_path, ok)
       /\ UNCHANGED <<storeVars, serviceVars, resolverVars, callVars>>
    \/ /\ \E image_path \in image_files : Collect(image_path)
       /\ UNCHANGED <<storeVars, serviceVars, resolverVars, callVars>>
    \/ /\ ReturnBatch
       /\ UNCHANGED <<storeVars, serviceVars, resolverVars, callVars>>
    \/ /\ RunAgain
       /\ UNCHANGED <<storeVars, serviceVars, resolverVars, callVars>>

SpecRerun ==
    InitRerun /\ [][NextRerun]_vars

InitGallery ==
    /\ InitStore
    /\ InitService
    /\ fs = [p \in {} |-> "x"]
    /\ IdleResolver
    /\ IdleBatch
    /\ IdleCalls

NextGallery ==
    \/ /\ \E person_name \in Names, faces \in SeqsOf(RegVectors, 0, MaxFaces),
             fail_at \in StoreOps \cup {"none"} :
               RegisterFaceFromImage(person_name, faces, fail_at)
       /\ UNCHANGED <<fs, resolverVars, batchVars, callVars>>
    \/ /\ \E name \in Names : AddPerson(name)
       /\ UNCHANGED <<fs, resolverVars, batchVars, callVars>>
    \/ /\ \E person_id \in 1..MaxPersons : DeletePerson(person_id)
       /\ UNCHANGED <<fs, resolverVars, batchVars, callVars>>
    \/ /\ RefreshKnownFaces
       /\ UNCHANGED <<fs, resolverVars, batchVars, callVars>>

SpecGallery ==
    InitGallery /\ [][NextGallery]_vars

\* ------------------------------------------------------------ the matcher

InitMatch ==
    /\ \E st \in Stores : InitServiceOn(st)
    /\ fs = [p \in {} |-> "x"]
    /\ IdleResolver
    /\ IdleBatch
    /\ IdleCalls

NextMatch ==
    /\ \E encodings \in SeqsOf(QueryVectors, 1, MaxFaces) : IdentifyFaces(encodings)
    /\ UNCHANGED <<fs, resolverVars, batchVars, callVars>>

SpecMatch ==
    InitMatch /\ [][NextMatch]_vars

\* ---------------------------------------------------------- the sanitizer
\* A string is the sequence of its characters.

invalid_chars ==
    {"<", ">", ":", "\"", "/", "\\", "|", "?", "*"}

\* for char in invalid_chars: cleaned = cleaned.replace(char, '_')
ReplaceInvalid(str) ==
    [i \in 1..Len(str) |-> IF str[i] \in invalid_chars THEN "_" ELSE str[i]]

\* '__' in cleaned
HasDouble(str) ==
    \E i \in 1..(Len(str) - 1) : str[i] = "_" /\ str[i + 1] = "_"

\* cleaned.replace('__', '_'): the occurrences from the left, not overlapping
RECURSIVE ReplaceDouble(_)
ReplaceDouble(str) ==
    IF Len(str) < 2
    THEN str
    ELSE IF str[1] = "_" /\ str[2] = "_"
         THEN <<"_">> \o ReplaceDouble(SubSeq(str, 3, Len(str)))
         ELSE <<str[1]>> \o ReplaceDouble(Tail(str))

\* while '__' in cleaned: cleaned = cleaned.replace('__', '_')
CollapseOnce(str) ==
    ReplaceDouble(str)

RECURSIVE CollapseUnderscores(_)
CollapseUnderscores(str) ==
    IF HasDouble(str)
    THEN CollapseUnderscores(ReplaceDouble(str))
    ELSE str

\* the characters of strip('. ')
strip_chars ==
    {".", " "}

RECURSIVE LStrip(_)
LStrip(str) ==
    IF str # <<>> /\ Head(str) \in strip_chars
    THEN LStrip(Tail(str))
    ELSE str

RECURSIVE RStrip(_)
RStrip(str) ==
    IF str # <<>> /\ str[Len(str)] \in strip_chars
    THEN RStrip(SubSeq(str, 1, Len(str) - 1))
    ELSE str

\* cleaned.strip('. ')
StripLeadingOnly(str) ==
    LStrip(str)

Strip(str) ==
    RStrip(LStrip(str))

\* "unnamed"
Unnamed ==
    <<"u", "n", "n", "a", "m", "e", "d">>

\* clean_filename
clean_filename_collapse_first(filename) ==
    LET cleaned == Strip(ReplaceInvalid(CollapseUnderscores(filename)))
    IN  IF cleaned = <<>> THEN Unnamed ELSE cleaned

clean_filename(filename) ==
    LET cleaned == Strip(CollapseUnderscores(ReplaceInvalid(filename)))
    IN  IF cleaned = <<>> THEN Unnamed ELSE cleaned

\* the characters the strings given to the sanitizer are made of
Chars ==
    {"a", "_", "<", "/", ".", " ", "\t"}

InitSanitize ==
    /\ InitStore
    /\ InitService
    /\ fs = [p \in {} |-> "x"]
    /\ IdleResolver
    /\ IdleBatch
    /\ c_pc = "idle"
    /\ c_face_data = [raises |-> FALSE, faces |-> <<>>]
    /\ c_labels = <<>>
    /\ s_filename \in SeqsOf(Chars, 0, MaxLen)
    /\ s_cleaned = <<>>
    /\ g_pc = "idle"
    /\ g_names = <<>>
    /\ g_original_path = NoPath
    /\ g_new_filename = NoPath.name
    /\ args = NoCall
    /\ IdleLoad

\* clean_filename, on the given string and then on what it returned
CleanFilename ==
    /\ Len(s_cleaned) < MaxCalls
    /\ LET filename == IF s_cleaned = <<>> THEN s_filename ELSE s_cleaned[Len(s_cleaned)]
       IN  s_cleaned' = Append(s_cleaned, clean_filename(filename))
    /\ UNCHANGED <<storeVars, serviceVars, fs, resolverVars, batchVars,
                   classifierVars, s_filename, deriverVars, args, loadVars>>

NextSanitize ==
    CleanFilename

SpecSanitize ==
    InitSanitize /\ [][NextSanitize]_vars

\* --------------------------------------------------------- the classifier

\* a gallery of more persons than a file name takes
ClassifierStore ==
    [tbl |-> (1 :> "Alice") @@ (2 :> "Bob") @@ (3 :> "Carol") @@ (4 :> "Dave"),
     rows |-> << [person_id |-> 4, encoding |-> 60],
                 [person_id |-> 1, encoding |-> 0],
                 [person_id |-> 3, encoding |-> 40],
                 [person_id |-> 2, encoding |-> 20] >>]

\* encodings of the faces in an image: one near each person, one of a
\* stranger
DetectedVectors ==
    {2, 20, 41, 66, 90}

\* what detect_faces_in_image can answer
Detections ==
    { [raises |-> FALSE, faces |-> f] : f \in SeqsOf(DetectedVectors, 0, MaxDetected) }
        \cup { [raises |-> TRUE, faces |-> <<>>] }

InitClassify ==
    /\ InitServiceOn(ClassifierStore)
    /\ fs = [p \in {} |-> "x"]
    /\ IdleResolver
    /\ IdleBatch
    /\ c_pc = "detected"
    /\ c_face_data \in Detections
    /\ c_labels = <<>>
    /\ s_filename = <<>>
    /\ s_cleaned = <<>>
    /\ g_pc = "idle"
    /\ g_names = <<>>
    /\ g_original_path = NoPath
    /\ g_new_filename = NoPath.name
    /\ args = NoCall
    /\ IdleLoad

\* process_image_for_rename, after detect_faces_in_image
ProcessImageForRename ==
    /\ c_pc = "detected"
    /\ c_pc' = "returned"
    /\ c_labels' = LabelsFor(c_face_data, known_encodings, known_names)
    /\ IF c_face_data.raises \/ c_face_data.faces = <<>>
       THEN UNCHANGED <<query, identified, ret>>
       ELSE /\ query' = c_face_data.faces
            /\ identified' = identify_faces(c_face_data.faces, known_encodings, known_names)
            /\ ret' = Ret("identify_faces", "list")
    /\ UNCHANGED <<storeVars, known_encodings, known_names, unloaded_commit,
                   c_face_data, fs, resolverVars, batchVars, sanitizerVars, deriverVars,
                   args, loadVars>>

NextClassify ==
    ProcessImageForRename

SpecClassify ==
    InitClassify /\ [][NextClassify]_vars

\* ------------------------------------------------------------ the deriver

\* RENAME_CONFIG["name_separator"]
name_separator ==
    "_"

\* name_separator.join(parts), the parts being strings
RECURSIVE join(_, _)
join(sep, parts) ==
    IF parts = <<>>
    THEN <<>>
    ELSE IF Len(parts) = 1
         THEN parts[1]
         ELSE parts[1] \o <<sep>> \o join(sep, Tail(parts))

\* f"{name_part}{extension}": the string that a file name without duplicate
\* suffix is; the extension counts as one character of it
NameStr(name) ==
    join(name_separator, name.stem) \o (IF name.ext = "" THEN <<>> ELSE <<name.ext>>)

\* names of persons as register_face_from_image takes them: any string
Labels ==
    { <<"A", "l">>, <<"b", "o", "b">>, <<"A", "/", "B">>, <<"x", ":">>, <<"C", "_", "d">> }

OriginalPaths ==
    { Jpg("d1", <<"p", "h">>, ".JPG"), Jpg("d1", <<"i", "m", "g">>, ".png"),
      Jpg("d2", <<"A", "l">>, ".jpg"), Jpg("d2", <<"R", "E", "A", "D">>, "") }

InitDerive ==
    /\ InitStore
    /\ InitService
    /\ fs = [p \in {} |-> "x"]
    /\ IdleResolver
    /\ IdleBatch
    /\ c_pc = "idle"
    /\ c_face_data = [raises |-> FALSE, faces |-> <<>>]
    /\ c_labels = <<>>
    /\ s_filename = <<>>
    /\ s_cleaned = <<>>
    /\ g_pc = "called"
    /\ g_names \in SeqsOf(Labels, 0, MaxLabels)
    /\ g_original_path \in OriginalPaths
    /\ g_new_filename = NoPath.name
    /\ args = NoCall
    /\ IdleLoad

\* RenameService.generate_new_filename(names, original_path)
GenerateNewFilename ==
    /\ g_pc = "called"
    /\ g_pc' = "returned"
    /\ g_new_filename' = generate_new_filename(g_names, g_original_path)
    /\ UNCHANGED <<storeVars, serviceVars, fs, resolverVars, batchVars,
                   classifierVars, sanitizerVars, g_names, g_original_path, args,
                   loadVars>>

NextDerive ==
    GenerateNewFilename

SpecDerive ==
    InitDerive /\ [][NextDerive]_vars

\* ------------------------------------------------------- the path check

\* the names of directory entries, as characters, and the parent entry
DotDot ==
    <<".", ".">>

Components ==
    { <<"a">>, <<"a", "b">>, DotDot }

\* a pathlib.Path: absolute or relative, and its components
Paths ==
    [absolute : BOOLEAN, parts : SeqsOf(Components, 0, MaxDepth)]

\* the working directories a relative path is resolved against
WorkingDirs ==
    { <<>>, << <<"a">> >> }

RECURSIVE Normalise(_, _)
\* ".." leaves a directory, and leaves the root where it is
Normalise(done, parts) ==
    IF parts = <<>> THEN done
    ELSE IF Head(parts) = DotDot
         THEN Normalise(IF done = <<>> THEN <<>> ELSE SubSeq(done, 1, Len(done) - 1),
                        Tail(parts))
         ELSE Normalise(Append(done, Head(parts)), Tail(parts))

\* Path.resolve() on a file system without symbolic links: the components
\* of the absolute path
resolve(path, cwd) ==
    Normalise(<<>>, IF path.absolute THEN path.parts ELSE cwd \o path.parts)

RECURSIVE PathStr(_)
\* str() of a resolved path: "/" for the root, "/a/ab" otherwise
PathStr(parts) ==
    IF parts = <<>> THEN <<"/">>
    ELSE IF Len(parts) = 1 THEN <<"/">> \o parts[1]
    ELSE PathStr(SubSeq(parts, 1, Len(parts) - 1)) \o <<"/">> \o parts[Len(parts)]

\* str.startswith
startswith(string, prefix) ==
    /\ Len(prefix) <= Len(string)
    /\ SubSeq(string, 1, Len(prefix)) = prefix

\* validate_path_safety(path, base_directory)
validate_path_safety(path, base_directory, cwd) ==
    startswith(PathStr(resolve(path, cwd)), PathStr(resolve(base_directory, cwd)))

InitSafety ==
    /\ InitStore
    /\ InitService
    /\ fs = [p \in {} |-> "x"]
    /\ IdleResolver
    /\ IdleBatch
    /\ c_pc = "idle"
    /\ c_face_data = [raises |-> FALSE, faces |-> <<>>]
    /\ c_labels = <<>>
    /\ s_filename = <<>>
    /\ s_cleaned = <<>>
    /\ g_pc = "idle"
    /\ g_names = <<>>
    /\ g_original_path = NoPath
    /\ g_new_filename = NoPath.name
    /\ args \in { [op |-> "validate_path_safety", path |-> p, base_directory |-> b,
                    cwd |-> d] : p \in Paths, b \in Paths, d \in WorkingDirs }
    /\ IdleLoad

ValidatePathSafety ==
    /\ ret.op = "none"
    /\ args.op = "validate_path_safety"
    /\ ret' = Ret("validate_path_safety",
                  validate_path_safety(args.path, args.base_directory, args.cwd))
    /\ UNCHANGED <<storeVars, known_encodings, known_names, unloaded_commit, query,
                   identified, fs, resolverVars, batchVars, callVars>>

NextSafety ==
    ValidatePathSafety

SpecSafety ==
    InitSafety /\ [][NextSafety]_vars

\* ---------------------------------------------------- claims on the batch

Finished(p) ==
    pc[p] \in {"done", "collected"}

\* the file was moved to the new path its result names
RenamedTo(p) ==
    /\ Finished(p)
    /\ future[p].value.success
    /\ future[p].value.new_path # p

\* what the classifier answers for a submitted file as the batch found it
LabelsOf(p) ==
    process_image_for_rename(p, fs0, known_encodings, known_names)

Supported(p) ==
    Lower(p.name.ext) \in SUPPORTED_IMAGE_FORMATS

DetectionRaises(p) ==
    detect_faces_in_image(p, fs0).raises

\* C2 (as claimed): in a batch that is not a dry run, resolving and renaming
\* are one critical section per directory: no two workers hold the same
\* target between the two steps, and no two files are renamed to the same
\* final path.
C2_NoSharedTargetPath ==
    ~dry_run =>
        \A p, q \in image_files :
            p # q =>
                /\ (pc[p] = "renaming" /\ pc[q] = "renaming") => target[p] # target[q]
                /\ (RenamedTo(p) /\ RenamedTo(q)) =>
                       future[p].value.new_path # future[q].value.new_path

\* C3 (as claimed): each file is counted in exactly one bucket: no_faces
\* counts the files in which no face was detected or matched and failed does
\* not count them, failed counts the files whose detection raised and
\* no_faces does not count them, successful counts the renamed files.
C3_ExclusiveBuckets ==
    batch = "returned" =>
        LET NoFace == { p \in image_files :
                          Supported(p) /\ ~DetectionRaises(p) /\ LabelsOf(p) = <<>> }
            Throws == { p \in image_files : Supported(p) /\ DetectionRaises(p) }
            Ok == { p \in image_files : future[p].value.success }
        IN  /\ no_faces = Cardinality(NoFace)
            /\ failed = Cardinality(image_files \ (NoFace \cup Ok))
            /\ Throws \subseteq image_files \ (NoFace \cup Ok)
            /\ successful = Cardinality(Ok)

\* C7: in a dry run the filesystem stays as the batch found it.
C7_DryRunKeepsFiles ==
    dry_run => fs = fs0

\* a dry run that returned and reported a rename it did not perform
C7_Witness ==
    /\ dry_run
    /\ batch = "returned"
    /\ \E p \in image_files :
           /\ future[p].value.success
           /\ future[p].value.new_path # p
           /\ ~Exists(future[p].value.new_path)
    /\ \E p \in image_files : future[p].value.error # "none"

\* C8 (as claimed): the real batch over the same list, gallery and
\* filesystem gives every file the success flag, labels and new path the
\* dry run reported (stated for the runs in which no rename syscall fails).
C8_PreviewMatchesRun ==
    (batch = "returned" /\ ~dry_run /\ DOMAIN preview = image_files
        /\ rename_failed = {}) =>
        \A p \in image_files :
            /\ preview[p].success = future[p].value.success
            /\ preview[p].identified_names = future[p].value.identified_names
            /\ preview[p].new_path = future[p].value.new_path

\* C9: no per-file failure leaves rename_batch as an exception; a file
\* with an unsupported extension, a failed detection or a failed rename
\* gets an outcome with success false and an error, and the returned
\* summary holds exactly one outcome for every submitted file.
C9_FailuresBecomeOutcomes ==
    /\ batch # "raised"
    /\ \A p \in image_files :
           (Finished(p) /\ (~Supported(p) \/ DetectionRaises(p) \/ p \in rename_failed)) =>
               /\ ~future[p].exception
               /\ ~future[p].value.success
               /\ future[p].value.error # "none"
    /\ batch = "returned" =>
           /\ Len(results) = Cardinality(image_files)
           /\ \A p \in image_files :
                  Cardinality({ k \in 1..Len(results) : results[k].original_path = p }) = 1
           /\ \A k \in 1..Len(results) :
                  results[k] = future[results[k].original_path].value

\* a returned batch with one failure of each kind
C9_Witness ==
    /\ batch = "returned"
    /\ \E p \in image_files : ~Supported(p)
    /\ \E p \in image_files : Supported(p) /\ DetectionRaises(p)
    /\ rename_failed # {}
    /\ Len(results) = 3

\* the path of the name derived for a submitted file
Derived(p) ==
    MkPath(p.dir, generate_new_filename(LabelsOf(p), p))

\* C21 (as claimed): every outcome counted in successful has a new path that
\* differs from the file's original path; a file whose derived name is its
\* current name is not counted as successful.
C21_SuccessfulMeansRenamed ==
    \A k \in 1..Len(results) :
        results[k].success => results[k].new_path # results[k].original_path

\* C21 (amended): every outcome counted in successful has a resolved new
\* path; where it differs from the original path the rename was performed
\* (in a dry run: would be), and a recognised file whose derived name is its
\* current name is counted as successful too, with its own path as new path,
\* and stays where it is.
C21_SuccessfulHasResolvedPath ==
    /\ successful = Cardinality({ k \in 1..Len(results) : results[k].success })
    /\ \A k \in 1..Len(results) :
           LET p == results[k].original_path
               new_path == results[k].new_path
           IN  results[k].success =>
                   /\ new_path # NoPath
                   /\ results[k].identified_names # <<>>
                   /\ (new_path # p /\ ~dry_run) =>
                          (p \notin rename_failed /\ target[p] = new_path)
                   /\ (new_path # p /\ dry_run) => Exists(p)
    /\ \A p \in image_files :
           (pc[p] = "collected" /\ Supported(p) /\ LabelsOf(p) # <<>> /\ Derived(p) = p) =>
               /\ future[p].value.success
               /\ future[p].value.new_path = p
               /\ p \notin rename_failed
               /\ Exists(p) /\ fs[p] = fs0[p]

\* a returned batch that counted a renamed file and a file that already had
\* its derived name
C21_Witness ==
    /\ batch = "returned"
    /\ ~dry_run
    /\ successful = 2
    /\ \E k \in 1..Len(results) :
           results[k].success /\ results[k].new_path = results[k].original_path
    /\ \E k \in 1..Len(results) :
           /\ results[k].success
           /\ results[k].new_path # results[k].original_path
           /\ ~Exists(results[k].original_path)

\* the file has the name derived from its labels, as it is or with one
\* "(n)" appended: the name a first run gave it
NamedByFirstRun(p) ==
    /\ Supported(p)
    /\ LabelsOf(p) # <<>>
    /\ p.name.stem = LabelsOf(p)
    /\ p.name.ext = Lower(p.name.ext)
    /\ \/ p.name.dup = <<>>
       \/ \E n \in 1..MaxCounter : p.name.dup = <<duplicate_format(n)>>

\* C22 (as claimed): a second run over the files of a first run renames no
\* file that the first run named, a file that received a "(n)" suffix
\* included: no rename of it is started and its outcome keeps its path.
C22_RerunRenamesNothing ==
    rerun =>
        \A p \in image_files :
            NamedByFirstRun(p) =>
                /\ pc[p] # "renaming"
                /\ (Finished(p) /\ future[p].value.success) =>
                       future[p].value.new_path = p

\* C23: the progress callback is called once for every collected file, with
\* the count of the files collected so far, 1, 2, ... in this order, and the
\* number of submitted files; a returned batch has made one call per file.
C23_ProgressOncePerFile ==
    /\ Len(progress) = Cardinality({ p \in image_files : pc[p] = "collected" })
    /\ \A k \in 1..Len(progress) : progress[k] = <<k, Cardinality(image_files)>>
    /\ batch = "returned" => Len(progress) = Cardinality(image_files)

\* a returned batch of three files, successes and failures among them
C23_Witness ==
    /\ batch = "returned"
    /\ progress = << <<1, 3>>, <<2, 3>>, <<3, 3>> >>
    /\ \E k \in 1..3 : ~results[k].success
    /\ \E k \in 1..3 : results[k].success

\* C28: while the batch collects and when it has returned, successful is
\* the number of collected outcomes with success true, failed the number
\* with success false, no_faces the number whose error is the no-face
\* error, and successful + failed is the number of collected outcomes,
\* every submitted file's on return.
C28_CountersFollowOutcomes ==
    LET Count(Test(_)) == Cardinality({ k \in 1..Len(results) : Test(results[k]) })
        Ok(r) == r.success
        NotOk(r) == ~r.success
        NoFace(r) == r.error = "no_face"
    IN  /\ successful = Count(Ok)
        /\ failed = Count(NotOk)
        /\ no_faces = Count(NoFace)
        /\ successful + failed = Len(results)
        /\ batch = "returned" => successful + failed = Cardinality(image_files)

\* a returned batch with a success, a file without a face and another failure
C28_Witness ==
    /\ batch = "returned"
    /\ successful = 1
    /\ failed = 2
    /\ no_faces = 1

\* ---------------------------------------------- claims on the sanitizer

\* the characters Python counts as whitespace, among those of the model
Whitespace ==
    {" ", "\t", "\n", "\r", "\f"}

\* the characters < > : " / \ | ? *
ForbiddenChars ==
    {"<", ">", ":", "\"", "/", "\\", "|", "?", "*"}

Clean(str) ==
    /\ \A i \in 1..Len(str) : str[i] \notin ForbiddenChars
    /\ \A i \in 1..(Len(str) - 1) : ~(str[i] = "_" /\ str[i + 1] = "_")

\* C18: the sanitizer applied to its own result returns that result.
C18_SanitizerIdempotent ==
    \A k \in 2..Len(s_cleaned) : s_cleaned[k] = s_cleaned[k - 1]

\* the first call changed the string, the second call changed nothing
C18_Witness ==
    /\ Len(s_cleaned) >= 2
    /\ s_cleaned[1] # s_filename
    /\ s_cleaned[1] # Unnamed
    /\ s_cleaned[2] = s_cleaned[1]

\* C19: the result holds none of the characters < > : " / \ | ? * and no
\* two adjacent underscores; a string that the other steps leave alone
\* comes back with each of these characters replaced by an underscore.
C19_ReplacesAndCollapses ==
    Len(s_cleaned) >= 1 =>
        /\ Clean(s_cleaned[1])
        /\ ( /\ s_filename # <<>>
             /\ \A i \in 1..(Len(s_filename) - 1) :
                    ~ /\ s_filename[i] \in ForbiddenChars \cup {"_"}
                      /\ s_filename[i + 1] \in ForbiddenChars \cup {"_"}
             /\ Head(s_filename) \notin strip_chars
             /\ s_filename[Len(s_filename)] \notin strip_chars )
           => /\ Len(s_cleaned[1]) = Len(s_filename)
              /\ \A i \in 1..Len(s_filename) :
                     s_cleaned[1][i] =
                         IF s_filename[i] \in ForbiddenChars THEN "_" ELSE s_filename[i]

\* a run of four characters to replace came back as one underscore
C19_Witness ==
    /\ Len(s_cleaned) >= 1
    /\ Len(s_filename) = 4
    /\ \A i \in 1..4 : s_filename[i] \in {"<", "/"}
    /\ s_cleaned[1] = <<"_">>

\* C20, as stated: the result is not empty, neither begins nor ends with
\* '.' or a whitespace character, and is "unnamed" for a string of only
\* whitespace.
C20_StripsDotsAndWhitespace ==
    Len(s_cleaned) >= 1 =>
        LET cleaned == s_cleaned[1]
        IN  /\ cleaned # <<>>
            /\ Head(cleaned) \notin {"."} \cup Whitespace
            /\ cleaned[Len(cleaned)] \notin {"."} \cup Whitespace
            /\ (\A i \in 1..Len(s_filename) : s_filename[i] \in Whitespace)
               => cleaned = Unnamed

\* C20, amended: the result is not empty, neither begins nor ends with '.'
\* or a space, and is "unnamed" whenever nothing but '.' and spaces is
\* left to strip.
C20_StripsDotsAndSpaces ==
    Len(s_cleaned) >= 1 =>
        LET cleaned == s_cleaned[1]
        IN  /\ cleaned # <<>>
            /\ Head(cleaned) \notin {".", " "}
            /\ cleaned[Len(cleaned)] \notin {".", " "}
            /\ (\A i \in 1..Len(s_filename) : s_filename[i] \in {".", " "})
               => cleaned = Unnamed

\* dots and spaces were stripped at both ends of a name, and a string of
\* only spaces came back as "unnamed"
C20_Witness ==
    \/ /\ s_filename = <<" ", ".", "a", ".">>
       /\ s_cleaned = <<<<"a">>>>
    \/ /\ s_filename = <<" ", " ", " ">>
       /\ s_cleaned = <<Unnamed>>

\* ------------------------------------------------ claims on the deriver

\* where the k-th label begins in the joined string, less one
RECURSIVE Offset(_)
Offset(k) ==
    IF k = 1 THEN 0 ELSE Offset(k - 1) + Len(g_names[k - 1]) + 1

\* C15: with no labels the derived name is the original file's name.
C15_DeriverIdentity ==
    (g_pc = "returned" /\ g_names = <<>>)
    => g_new_filename = g_original_path.name

\* no labels and an original name with an upper-case extension
C15_Witness ==
    /\ g_pc = "returned"
    /\ g_names = <<>>
    /\ g_original_path.name.ext = ".JPG"
    /\ NameStr(g_new_filename) = <<"p", "h", ".JPG">>

\* C16: for a non-empty label list the derived name is the labels, each as
\* it is, with one separator between neighbours, followed by the original
\* extension in lower case.
C16_DeriverJoinsAndLowers ==
    (g_pc = "returned" /\ g_names # <<>>) =>
        LET str == NameStr(g_new_filename)
            n == Len(g_names)
            ext == g_original_path.name.ext
            lowered == CASE ext = ".JPG" -> ".jpg"
                         [] ext = ".PNG" -> ".png"
                         [] OTHER -> ext
            stem_len == Offset(n) + Len(g_names[n])
        IN  /\ Len(str) = stem_len + (IF ext = "" THEN 0 ELSE 1)
            /\ \A k \in 1..n : \A i \in 1..Len(g_names[k]) :
                   str[Offset(k) + i] = g_names[k][i]
            /\ \A k \in 2..n : str[Offset(k)] = "_"
            /\ ext # "" => str[Len(str)] = lowered

\* two labels and photo.JPG
C16_Witness ==
    /\ g_pc = "returned"
    /\ g_names = << <<"A", "l">>, <<"b", "o", "b">> >>
    /\ g_original_path.name.ext = ".JPG"
    /\ NameStr(g_new_filename) = <<"A", "l", "_", "b", "o", "b", ".jpg">>

\* C17: for a non-empty label list the derived name holds none of the
\* characters < > : " / \ | ? *, each label standing in its sanitized form.
C17_DeriverSanitizesLabels ==
    (g_pc = "returned" /\ g_names # <<>>) =>
        /\ \A i \in 1..Len(NameStr(g_new_filename)) :
               NameStr(g_new_filename)[i] \notin ForbiddenChars
        /\ g_new_filename.stem = [k \in 1..Len(g_names) |-> clean_filename(g_names[k])]

\* --------------------------------------------- claims on the classifier

\* the names the matcher returned for the faces of the image
Matched ==
    { identified[k] : k \in 1..Len(identified) } \ {None}

\* the position of the first face that was given the name
FirstIndex(nm) ==
    CHOOSE k \in 1..Len(identified) :
        /\ identified[k] = nm
        /\ \A j \in 1..(k - 1) : identified[j] # nm

\* the first n distinct names in detection order
FirstDistinct(n) ==
    [p \in 1..n |->
        CHOOSE nm \in Matched :
            Cardinality({ m \in Matched : FirstIndex(m) <= FirstIndex(nm) }) = p]

\* C12: every matched name is in the label list at most once, and the
\* labels stand in the order of their first occurrence among the faces.
C12_DedupeFirstOccurrence ==
    c_pc = "returned" =>
        /\ \A nm \in Matched :
               Cardinality({ i \in 1..Len(c_labels) : c_labels[i] = nm }) <= 1
        /\ \A i, j \in 1..Len(c_labels) :
               (i < j /\ c_labels[i] \in Matched /\ c_labels[j] \in Matched)
               => FirstIndex(c_labels[i]) < FirstIndex(c_labels[j])

\* a person detected twice, another person in between, is labelled once and
\* before the other
C12_Witness ==
    /\ c_pc = "returned"
    /\ \E i, j, k \in 1..Len(identified) :
           /\ i < j /\ j < k
           /\ identified[i] = identified[k]
           /\ identified[i] # None
           /\ identified[j] \notin {None, identified[i]}
           /\ c_labels = <<identified[i], identified[j]>>

\* C13: the label list never has more than max_names_per_file entries, and
\* when more distinct persons matched it is the first max_names_per_file
\* distinct names in detection order.
C13_MaxLabelTruncation ==
    c_pc = "returned" =>
        /\ Len(c_labels) <= max_names_per_file
        /\ Cardinality(Matched) > max_names_per_file
           => c_labels = FirstDistinct(max_names_per_file)

\* more distinct persons matched than a file name takes
C13_Witness ==
    /\ c_pc = "returned"
    /\ Cardinality(Matched) > max_names_per_file
    /\ Len(c_labels) = max_names_per_file

\* C14: the label list holds only names the matcher returned, never its
\* "no match", and it is empty exactly when no face was detected or no
\* detected face matched.
C14_DropsUnmatched ==
    c_pc = "returned" =>
        /\ \A i \in 1..Len(c_labels) : c_labels[i] \in Matched
        /\ c_labels = <<>> <=>
               \/ c_face_data.raises
               \/ c_face_data.faces = <<>>
               \/ \A k \in 1..Len(identified) : identified[k] = None

\* an image with a matched and an unmatched face
C14_Witness ==
    /\ c_pc = "returned"
    /\ \E k \in 1..Len(identified) : identified[k] = None
    /\ \E k \in 1..Len(identified) : identified[k] # None
    /\ Len(c_labels) = 1

\* ------------------------------------------------ claims on the matcher

Nearest(encoding) ==
    { j \in 1..Len(known_encodings) :
        \A k \in 1..Len(known_encodings) :
            Abs(known_encodings[j] - encoding) <= Abs(known_encodings[k] - encoding) }

\* C1: for every query vector the answer is the owner of a nearest gallery
\* vector exactly when the gallery is not empty and the minimum distance is
\* at most the tolerance, and "no match" otherwise.
C1_MatcherThreshold ==
    /\ Len(identified) = Len(query)
    /\ \A i \in 1..Len(query) :
           IF \E j \in Nearest(query[i]) :
                  Abs(known_encodings[j] - query[i]) <= tolerance
           THEN \E j \in Nearest(query[i]) : identified[i] = known_names[j]
           ELSE identified[i] = None

\* one call that matched a face at exactly the tolerance and rejected another
C1_Witness ==
    /\ ret.op = "identify_faces"
    /\ Len(query) = 2
    /\ identified[1] \in Names
    /\ \E j \in Nearest(query[1]) : Abs(known_encodings[j] - query[1]) = tolerance
    /\ identified[2] = None
    /\ known_encodings # <<>>

\* C11: when several gallery vectors are at the same minimum distance from
\* the query vector, within the tolerance, the answer is the owner of the
\* one that comes first in the order the gallery was loaded in.
C11_TieBreakFirstLoaded ==
    \A i \in 1..Len(query) :
        \A j \in Nearest(query[i]) :
            ( /\ Abs(known_encodings[j] - query[i]) <= tolerance
              /\ \A k \in Nearest(query[i]) : j <= k )
            => identified[i] = known_names[j]

\* a face at the same distance, within the tolerance, from the vectors of
\* two different persons was given the name of the one loaded first
C11_Witness ==
    /\ ret.op = "identify_faces"
    /\ \E i \in 1..Len(query) :
           \E j, k \in Nearest(query[i]) :
               /\ j < k
               /\ \A m \in Nearest(query[i]) : j <= m
               /\ known_names[j] # known_names[k]
               /\ Abs(known_encodings[j] - query[i]) <= tolerance
               /\ identified[i] = known_names[j]

\* --------------------------------------------- claims on the path check

\* the resolved path is the resolved base directory or below it
InsideBase(path, base_directory, cwd) ==
    LET p == resolve(path, cwd)
        b == resolve(base_directory, cwd)
    IN  /\ Len(b) <= Len(p)
        /\ SubSeq(p, 1, Len(b)) = b

\* C26 (as claimed): validate_path_safety returns True exactly when the
\* resolved path is the resolved base directory or a descendant of it.
C26_SafeExactlyInsideBase ==
    ret.op = "validate_path_safety"
        => (ret.val <=> InsideBase(args.path, args.base_directory, args.cwd))

\* ------------------------------------------------ claims on the store

\* C24: no two persons of the store share a name; an add_person that raised
\* ValueError left the store as it was, and one that returned an id added
\* one person under a name that no person had.
C24_PersonNamesUnique ==
    /\ [](\A i, j \in DOMAIN persons : i # j => persons[i] # persons[j])
    /\ [][ /\ (ret'.op = "add_person" /\ ret'.val = "ValueError")
               => UNCHANGED storeVars
           /\ (ret'.op = "add_person" /\ ret'.val = "id")
               => \E id \in DOMAIN persons' \ DOMAIN persons :
                      /\ DOMAIN persons' = DOMAIN persons \cup {id}
                      /\ persons'[id] \notin PersonNames(persons)
                      /\ \A i \in DOMAIN persons : persons'[i] = persons[i]
                      /\ face_encodings' = face_encodings ]_vars

\* add_person raised ValueError for the name of a person who was registered
\* with a face
C24_Witness ==
    /\ ret = Ret("add_person", "ValueError")
    /\ Cardinality(DOMAIN persons) = 1
    /\ Len(face_encodings) = 1

\* C25: delete_person leaves no vector of that person, leaves the other
\* persons and their vectors as they were, and returns true exactly when
\* the person existed.
C25_DeleteCascades ==
    [][ ret'.op = "delete_person" =>
            LET id == args.person_id
            IN  /\ \A k \in 1..Len(face_encodings') : face_encodings'[k].person_id # id
                /\ face_encodings' = SelectSeq(face_encodings, LAMBDA r : r.person_id # id)
                /\ DOMAIN persons' = DOMAIN persons \ {id}
                /\ \A i \in DOMAIN persons' : persons'[i] = persons[i]
                /\ (ret'.val = "True") <=> (id \in DOMAIN persons) ]_vars

\* a person with a vector was deleted while another person's vector stayed:
\* the cache, loaded before the call, still has both
C25_Witness ==
    /\ ret = Ret("delete_person", "True")
    /\ Len(known_encodings) = 2
    /\ Len(face_encodings) = 1
    /\ Cardinality(DOMAIN persons) = 1
    /\ args.person_id \notin DOMAIN persons

\* C29 (as claimed): a register_face_from_image that returned False left
\* the persons, the vectors and the cached gallery as they were.
C29_FailedRegistrationAtomic ==
    [][ (ret'.op = "register_face_from_image" /\ ret'.val = "False")
        => UNCHANGED <<persons, face_encodings, known_encodings, known_names>> ]_vars

\* C30: register_face_from_image raises ValueError exactly when the image
\* has no face or more than one, and then the store and the cached gallery
\* are as they were.
C30_RegisterNeedsOneFace ==
    /\ [](ret.op = "register_face_from_image"
            => (ret.val = "ValueError" <=> Len(args.faces) # 1))
    /\ [][ (ret'.op = "register_face_from_image" /\ ret'.val = "ValueError")
           => UNCHANGED <<storeVars, known_encodings, known_names>> ]_vars

\* an image with two faces was refused on a store that has a person
C30_Witness ==
    /\ ret = Ret("register_face_from_image", "ValueError")
    /\ Len(args.faces) = 2
    /\ Len(known_names) >= 1

\* C27 (as claimed): a thread in identify_faces while another refreshes the
\* gallery reads either the gallery of before the refresh or the one just
\* fetched, never an emptied or partly filled list nor lists that differ
\* in length.
C27_ReaderSeesWholeGallery ==
    i_pc = "done"
        => \/ seen = l_before
           \/ l_pc # "idle" /\ seen = GalleryOf(l_face_data)

\* ---------------------------------------- claims on the gallery cache

IsLoadOf(tbl, rows) ==
    \E face_data \in get_all_face_encodings(tbl, rows) :
        /\ known_encodings = [i \in 1..Len(face_data) |-> face_data[i].encoding]
        /\ known_names = [i \in 1..Len(face_data) |-> face_data[i].name]

Probe(n) ==
    WithStemSuffix(r_target, duplicate_format(n))

IsTimestampFallback(path) ==
    \E t \in Times : path = WithStemSuffix(r_target, timestamp_suffix(t))

\* C4 (as claimed): whatever path the resolver returns, that path does not
\* exist on the filesystem when it returns, the timestamp fallback included.
C4_ReturnedPathDoesNotExist ==
    r_pc = "done" => ~Exists(r_result)

\* C5: a candidate that does not exist is returned unchanged; otherwise,
\* when some n in 1..limit is free, the result is stem(n)ext for the
\* smallest such n.
C5_SmallestFreeCounter ==
    r_pc = "done" =>
        /\ ~Exists(r_target) => r_result = r_target
        /\ Exists(r_target) =>
              \A n \in 1..MaxCounter :
                  (~Exists(Probe(n)) /\ \A m \in 1..(n - 1) : Exists(Probe(m)))
                      => r_result = Probe(n)

\* test.txt and test(1).txt exist and the resolver answered test(2).txt
C5_Witness ==
    /\ r_pc = "done"
    /\ r_target = MkPath("d1", MkName(<<"test">>, <<>>, ".txt"))
    /\ Exists(r_target)
    /\ Exists(Probe(1))
    /\ ~Exists(Probe(2))
    /\ r_result = Probe(2)

\* C6: the resolver always returns, after at most limit probes, and takes
\* the timestamp fallback only when every probe 1..limit was made and found
\* an existing file.
C6_ResolverTerminates ==
    /\ <>(r_pc = "done")
    /\ [](Cardinality(r_probed) <= MaxCounter)
    /\ []((r_pc = "done" /\ IsTimestampFallback(r_result)) =>
              \A n \in 1..MaxCounter : n \in r_probed /\ Exists(Probe(n)))

\* the fallback was taken
C6_Witness ==
    /\ r_pc = "done"
    /\ IsTimestampFallback(r_result)
    /\ r_probed = 1..MaxCounter

====
